---- MODULE Spec2Model ----
(***************************************************************************)
(* Model of src/local_mmt.py: the multi-template matching pipeline         *)
(* (matchTemplates -> findMatches -> NMS) and its geometry helpers         *)
(* (Point_in_Rectangle, computeIoU).                                       *)
(*                                                                         *)
(* A hit is the row  [templateName, [x, y, width, height], coeff]  built   *)
(* at line 137, modelled as the tuple <<TemplateName, BBox, Score>>.       *)
(* Scores are integers (tenths); an IoU or a maxOverlap is the exact       *)
(* fraction <<numerator, denominator>> with a positive denominator.        *)
(* np.asarray of a non-empty list of such rows is the 2-D object array of  *)
(* shape (n, 3) whose BBox column holds Python lists; np.asarray([]) is a  *)
(* 1-D array of shape (0,).                                                *)
(***************************************************************************)
EXTENDS Integers, Sequences, FiniteSets, TLC

VARIABLES
    entry,          \* which library function the caller invoked
    pc,             \* position in the running call
    err,            \* the exception raised, "" when none
    pass,           \* 1: the caller's call of NMS, 2: NMS called again on its own output
    firstOut,       \* what the first call of NMS returned (kept for the second call)
    \* ---- arguments of NMS
    tableHit, tableNdim, scoreThreshold, sortAscending, N_object, maxOverlap,
    \* ---- locals of NMS
    threshTable, outTable, restTable,
    \* ---- arguments and locals of matchTemplates / findMatches
    listTemplates, image, method, searchBox, listHit, tIndex, scoreMaps,
    \* ---- arguments and results of computeIoU
    BBox1, BBox2, IoU12, IoU21

nmsVars == <<tableHit, tableNdim, scoreThreshold, sortAscending, N_object, maxOverlap,
             threshTable, outTable, restTable>>
mtVars  == <<listTemplates, image, method, searchBox, listHit, tIndex, scoreMaps>>
iouVars == <<BBox1, BBox2, IoU12, IoU21>>
vars    == <<entry, pc, err, pass, firstOut, nmsVars, mtVars, iouVars>>

(***************************************************************************)
(* Bounds of the model                                                     *)
(***************************************************************************)
MaxLen       == 3   \* longest table of hits a direct caller hands to NMS
MaxTemplates == 2   \* longest listTemplates
MaxCoord     == 2   \* computeIoU called alone: x, y in 0..MaxCoord
MaxSide      == 3   \* computeIoU called alone: width, height in 1..MaxSide

\* float("inf"), the default N_object: larger than the length of any table
inf == 1000000

SeqsUpTo(S, n) == UNION {[1..m -> S] : m \in 0..n}

RECURSIVE Reverse(_)
Reverse(s) == IF s = <<>> THEN <<>> ELSE Append(Reverse(Tail(s)), Head(s))

(***************************************************************************)
(* Geometry: Point_in_Rectangle and computeIoU                             *)
(***************************************************************************)
Max2(a, b) == IF a >= b THEN a ELSE b
Min2(a, b) == IF a <= b THEN a ELSE b

Point_in_Rectangle(Point, Rectangle) ==
    LET Px == Point[1]  Py == Point[2]
        Rx == Rectangle[1]  Ry == Rectangle[2]  w == Rectangle[3]  h == Rectangle[4]
    IN  (Rx <= Px) /\ (Px <= Rx + w - 1) /\ (Ry <= Py) /\ (Py <= Ry + h - 1)

\* computeIoU without the inclusion test of lines 289-295
computeIoU_NoInclusion(B1, B2) ==
    LET Xleft1 == B1[1]  Ytop1 == B1[2]  Width1 == B1[3]  Height1 == B1[4]
        Xleft2 == B2[1]  Ytop2 == B2[2]  Width2 == B2[3]  Height2 == B2[4]
        Xright1 == Xleft1 + Width1 - 1
        Ybot1   == Ytop1 + Height1 - 1
        Xright2 == Xleft2 + Width2 - 1
        Ybot2   == Ytop2 + Height2 - 1
        Xleft  == Max2(Xleft1, Xleft2)
        Ytop   == Max2(Ytop1, Ytop2)
        Xright == Min2(Xright1, Xright2)
        Ybot   == Min2(Ybot1, Ybot2)
        Inter  == (Xright - Xleft + 1) * (Ybot - Ytop + 1)
        Union  == Width1 * Height1 + Width2 * Height2 - Inter
    IN  IF Xright < Xleft \/ Ybot < Ytop THEN <<0, 1>>
        ELSE <<Inter, Union>>

\* computeIoU testing only whether BBox1 is included in BBox2
computeIoU_OneSided(B1, B2) ==
    LET Xleft1 == B1[1]  Ytop1 == B1[2]  Width1 == B1[3]  Height1 == B1[4]
        Xright1 == Xleft1 + Width1 - 1
        Ybot1   == Ytop1 + Height1 - 1
        BBox1_in_BBox2 ==
            /\ Point_in_Rectangle(<<Xleft1, Ytop1>>, B2)
            /\ Point_in_Rectangle(<<Xleft1, Ybot1>>, B2)
            /\ Point_in_Rectangle(<<Xright1, Ytop1>>, B2)
            /\ Point_in_Rectangle(<<Xright1, Ybot1>>, B2)
    IN  IF BBox1_in_BBox2 THEN <<1, 1>> ELSE computeIoU_NoInclusion(B1, B2)

computeIoU(B1, B2) ==
    LET Xleft1 == B1[1]  Ytop1 == B1[2]  Width1 == B1[3]  Height1 == B1[4]
        Xleft2 == B2[1]  Ytop2 == B2[2]  Width2 == B2[3]  Height2 == B2[4]
        Xright1 == Xleft1 + Width1 - 1
        Ybot1   == Ytop1 + Height1 - 1
        Xright2 == Xleft2 + Width2 - 1
        Ybot2   == Ytop2 + Height2 - 1
        Xleft  == Max2(Xleft1, Xleft2)
        Ytop   == Max2(Ytop1, Ytop2)
        Xright == Min2(Xright1, Xright2)
        Ybot   == Min2(Ybot1, Ybot2)
        BBox1_in_BBox2 ==
            /\ Point_in_Rectangle(<<Xleft1, Ytop1>>, B2)
            /\ Point_in_Rectangle(<<Xleft1, Ybot1>>, B2)
            /\ Point_in_Rectangle(<<Xright1, Ytop1>>, B2)
            /\ Point_in_Rectangle(<<Xright1, Ybot1>>, B2)
        BBox2_in_BBox1 ==
            /\ Point_in_Rectangle(<<Xleft2, Ytop2>>, B1)
            /\ Point_in_Rectangle(<<Xleft2, Ybot2>>, B1)
            /\ Point_in_Rectangle(<<Xright2, Ytop2>>, B1)
            /\ Point_in_Rectangle(<<Xright2, Ybot2>>, B1)
        Inter  == (Xright - Xleft + 1) * (Ybot - Ytop + 1)
        Union  == Width1 * Height1 + Width2 * Height2 - Inter
    IN  IF BBox1_in_BBox2 \/ BBox2_in_BBox1 THEN <<1, 1>>
        ELSE IF Xright < Xleft \/ Ybot < Ytop THEN <<0, 1>>
        ELSE <<Inter, Union>>

\* IoU > maxOverlap (line 397), both exact fractions with positive denominators
FracGreater(a, b) == a[1] * b[2] > b[1] * a[2]

(***************************************************************************)
(* Value sets the arguments are drawn from                                 *)
(***************************************************************************)
\* Templates are named by their width in pixels and are one pixel high; a hit
\* of template t at column x is the row <<t, <<x, 0, t, 1>>, coeff>>.
TemplateNames == {1, 2}
Columns       == {0, 1}
Scores        == {0, 1}
HitAt(t, x, coeff) == <<t, <<x, 0, t, 1>>, coeff>>
Hits  == {HitAt(t, x, coeff) : t \in TemplateNames, x \in Columns, coeff \in Scores}
Boxes == {<<x, 0, t, 1>> : x \in Columns, t \in TemplateNames}

\* boxes for computeIoU called alone
IoUBoxes == {<<x, y, w, h>> : x \in 0..MaxCoord, y \in 0..MaxCoord,
                              w \in 1..MaxSide, h \in 1..MaxSide}

\* maxOverlap values: -1/2, 0, 1/2, 1, 3/2
Overlaps == {<<0 - 1, 2>>, <<0, 1>>, <<1, 2>>, <<1, 1>>, <<3, 2>>}

\* scoreThreshold: <<>> stands for None, <<t>> for the float t
Thresholds == {<<>>} \cup {<<t>> : t \in Scores}

\* N_object with its Python type; float("inf") is a float
IntN(n)   == [type |-> "int", val |-> n]
FloatN(n) == [type |-> "float", val |-> n]
PositiveN == {IntN(1), IntN(2), FloatN(inf)}
AnyN      == PositiveN \cup {IntN(0), FloatN(2)}

(***************************************************************************)
(* NMS, lines 318-420                                                      *)
(***************************************************************************)
TemplateName(hit) == hit[1]
BBox(hit)         == hit[2]
Score(hit)        == hit[3]

\* lines 348-356: the optional threshold on the score column
ApplyThreshold(table, thr, asc) ==
    IF thr = <<>> THEN table
    ELSE IF ~asc THEN SelectSeq(table, LAMBDA hit : Score(hit) >= thr[1])
    ELSE SelectSeq(table, LAMBDA hit : Score(hit) <= thr[1])

\* table[table[:,2].argsort()]: numpy's default sort runs an insertion sort on
\* arrays of at most 16 elements, which keeps equal scores in table order
RECURSIVE ArgsortRows(_)
ArgsortRows(table) ==
    IF table = <<>> THEN <<>>
    ELSE LET front  == ArgsortRows(SubSeq(table, 1, Len(table) - 1))
             hit    == table[Len(table)]
         IN  SelectSeq(front, LAMBDA other : Score(other) <= Score(hit))
             \o <<hit>>
             \o SelectSeq(front, LAMBDA other : Score(other) > Score(hit))

\* lines 363-366 without the reversal of line 366
RankTable_NoReverse(table, asc) == ArgsortRows(table)

\* lines 363-366: best hits first
RankTable(table, asc) ==
    IF asc THEN ArgsortRows(table) ELSE Reverse(ArgsortRows(table))

\* table[a:b, 1]: the BBox column of a slice of rows
BBoxColumn(table) == [i \in DOMAIN table |-> BBox(table[i])]

\* line 376 with <= in place of <
LoopCond_OffByOne(out, rest, N) == Len(out) <= N.val /\ Len(rest) > 0

\* line 376: the condition of the while loop
LoopCond(out, rest, N) == Len(out) < N.val /\ Len(rest) > 0

\* lines 384-405 comparing the test box with the first kept box only
ToAppend_FirstOnly(test_bbox, out, mo) ==
    ~FracGreater(computeIoU(test_bbox, out[1]), mo)

\* lines 384-405: scan the kept boxes in order, stop at the first overlap
RECURSIVE ScanOut(_, _, _, _)
ScanOut(test_bbox, out, mo, i) ==
    IF FracGreater(computeIoU(test_bbox, out[i]), mo) THEN FALSE
    ELSE IF i = Len(out) THEN TRUE
    ELSE ScanOut(test_bbox, out, mo, i + 1)

ToAppend(test_bbox, out, mo) == ScanOut(test_bbox, out, mo, 1)

\* lines 413, 418: np.delete(restTable, np.where(restTable == testHit_dico))
\* removes every entry of restTable equal to the tested box
DeleteWhereEqual(rest, test_bbox) == SelectSeq(rest, LAMBDA b : b # test_bbox)

Raise(e) == pc' = "raised" /\ err' = e

\* lines 348-372: threshold, sort, split.  Indexing [:,2] needs a 2-D table.
NMS_Begin ==
    /\ pc = "NMS"
    /\ IF tableNdim # 2
       THEN /\ Raise("IndexError")
            /\ UNCHANGED <<threshTable, outTable, restTable>>
       ELSE LET ranked == RankTable(ApplyThreshold(tableHit, scoreThreshold, sortAscending),
                                    sortAscending)
            IN  /\ threshTable' = ranked
                /\ outTable'  = BBoxColumn(SubSeq(ranked, 1, Min2(1, Len(ranked))))
                /\ restTable' = BBoxColumn(SubSeq(ranked, 2, Len(ranked)))
                /\ pc' = "loop"
                /\ err' = err
    /\ UNCHANGED <<entry, pass, firstOut, tableHit, tableNdim, scoreThreshold,
                   sortAscending, N_object, maxOverlap, mtVars, iouVars>>

\* lines 376-413: one iteration that keeps the tested box
NMS_Accept ==
    /\ pc = "loop"
    /\ LoopCond(outTable, restTable, N_object)
    /\ LET test_bbox == restTable[1]
       IN  /\ ToAppend(test_bbox, outTable, maxOverlap)
           /\ outTable'  = Append(outTable, test_bbox)
           /\ restTable' = DeleteWhereEqual(restTable, test_bbox)
    /\ UNCHANGED <<entry, pc, err, pass, firstOut, tableHit, tableNdim, scoreThreshold,
                   sortAscending, N_object, maxOverlap, threshTable, mtVars, iouVars>>

\* lines 376-418: one iteration that discards the tested box
NMS_Reject ==
    /\ pc = "loop"
    /\ LoopCond(outTable, restTable, N_object)
    /\ LET test_bbox == restTable[1]
       IN  /\ ~ToAppend(test_bbox, outTable, maxOverlap)
           /\ restTable' = DeleteWhereEqual(restTable, test_bbox)
    /\ UNCHANGED <<entry, pc, err, pass, firstOut, tableHit, tableNdim, scoreThreshold,
                   sortAscending, N_object, maxOverlap, threshTable, outTable,
                   mtVars, iouVars>>

\* lines 376, 420: the loop condition fails, outTable is returned
NMS_Return ==
    /\ pc = "loop"
    /\ ~LoopCond(outTable, restTable, N_object)
    /\ pc' = "returned"
    /\ UNCHANGED <<entry, err, pass, firstOut, nmsVars, mtVars, iouVars>>

\* the caller hands the returned array to NMS again, with the same arguments;
\* the returned array is the 1-D array of boxes built at lines 371 and 412
NMS_Again ==
    /\ entry = "NMS" /\ pc = "returned" /\ pass = 1
    /\ pass' = 2
    /\ firstOut' = outTable
    /\ tableHit' = outTable
    /\ tableNdim' = 1
    /\ threshTable' = <<>> /\ outTable' = <<>> /\ restTable' = <<>>
    /\ pc' = "NMS"
    /\ UNCHANGED <<entry, err, scoreThreshold, sortAscending, N_object, maxOverlap,
                   mtVars, iouVars>>

(***************************************************************************)
(* matchTemplates and findMatches, lines 66-182                            *)
(***************************************************************************)
Dtypes == {"uint8", "float64"}
Template(name, dtype) == [name |-> name, dtype |-> dtype]
TemplateSet == {Template(n, d) : n \in TemplateNames, d \in Dtypes}

\* cv2.TM_SQDIFF_NORMED = 1 (difference), cv2.TM_CCOEFF_NORMED = 5 (correlation)
Methods == {1, 5}

\* searchBox: <<>> stands for None, else (X, Y, Width, Height)
SearchBoxes == {<<>>, <<1, 0, 2, 1>>}

\* line 173 without the lower limit
OverlapOutOfRange_UpperOnly(mo) == mo[1] > mo[2]

\* line 173: maxOverlap<0 or maxOverlap>1
OverlapOutOfRange(mo) == mo[1] < 0 \/ mo[1] > mo[2]

\* line 88: N_object!=float("inf") and type(N_object)!=int
N_objectNotInt(N) == N.val # inf /\ N.type # "int"

\* line 91: N_object<1
N_objectTooSmall(N) == N.val < 1

\* line 54 looking at the template only
Unsupported64bit_TemplateOnly(template, img) == template.dtype = "float64"

\* line 54: template.dtype == "float64" or image.dtype == "float64"
Unsupported64bit(template, img) == template.dtype = "float64" \/ img = "float64"

\* lines 95-99: the offsets of the search region
xOffset(box) == IF box = <<>> THEN 0 ELSE box[1]
yOffset(box) == IF box = <<>> THEN 0 ELSE box[2]

\* lines 109-124: what the peak search over one score map can report, each peak
\* as <<column, coeff>>; N_object = 1 takes the single global extremum
Peaks == {<<x, coeff>> : x \in Columns, coeff \in Scores}
PeakLists(N) ==
    IF N = IntN(1) THEN {<<p>> : p \in Peaks}
    ELSE {<<>>} \cup {<<p>> : p \in Peaks}

\* lines 133-140: one hit per peak of this template
NewHits(template, peaklist, box) ==
    [i \in DOMAIN peaklist |->
        <<template.name,
          <<peaklist[i][1] + xOffset(box), 0 + yOffset(box), template.name, 1>>,
          peaklist[i][2]>>]

\* lines 173-176: matchTemplates checks maxOverlap, then calls findMatches
MT_Validate ==
    /\ pc = "matchTemplates"
    /\ IF OverlapOutOfRange(maxOverlap)
       THEN Raise("ValueError: maxOverlap")
       ELSE pc' = "findMatches" /\ err' = err
    /\ UNCHANGED <<entry, pass, firstOut, nmsVars, mtVars, iouVars>>

\* lines 88-101: findMatches checks N_object, crops, starts with no hit
FM_Validate ==
    /\ pc = "findMatches"
    /\ IF N_objectNotInt(N_object)
       THEN Raise("TypeError: N_object") /\ UNCHANGED <<listHit, tIndex>>
       ELSE IF N_objectTooSmall(N_object)
       THEN Raise("ValueError: N_object") /\ UNCHANGED <<listHit, tIndex>>
       ELSE /\ listHit' = <<>>
            /\ tIndex' = 1
            /\ pc' = "templates" /\ err' = err
    /\ UNCHANGED <<entry, pass, firstOut, nmsVars, listTemplates, image, method,
                   searchBox, scoreMaps, iouVars>>

\* lines 102-140: one template: computeScoreMap (lines 48-63), peaks, hits
FM_Template ==
    /\ pc = "templates"
    /\ tIndex <= Len(listTemplates)
    /\ LET template == listTemplates[tIndex]
       IN  IF Unsupported64bit(template, image)
           THEN /\ Raise("ValueError: 64-bit")
                /\ UNCHANGED <<listHit, tIndex, scoreMaps>>
           ELSE /\ scoreMaps' = scoreMaps + 1
                /\ \E peaklist \in PeakLists(N_object) :
                       listHit' = listHit \o NewHits(template, peaklist, searchBox)
                /\ tIndex' = tIndex + 1
                /\ pc' = pc /\ err' = err
    /\ UNCHANGED <<entry, pass, firstOut, nmsVars, listTemplates, image, method,
                   searchBox, iouVars>>

\* lines 142, 176-180: np.asarray(listHit) goes to NMS; an empty list makes a
\* 1-D array of shape (0,), a list of rows a 2-D array
FM_Return ==
    /\ pc = "templates"
    /\ tIndex > Len(listTemplates)
    /\ tableHit' = listHit
    /\ tableNdim' = IF listHit = <<>> THEN 1 ELSE 2
    /\ scoreThreshold' = <<>>
    /\ sortAscending' = (method = 1)
    /\ pc' = "NMS"
    /\ UNCHANGED <<entry, err, pass, firstOut, N_object, maxOverlap, threshTable,
                   outTable, restTable, mtVars, iouVars>>

\* computeIoU called alone, in both argument orders
IoU_Call ==
    /\ pc = "computeIoU"
    /\ IoU12' = computeIoU(BBox1, BBox2)
    /\ IoU21' = computeIoU(BBox2, BBox1)
    /\ pc' = "returned"
    /\ UNCHANGED <<entry, err, pass, firstOut, nmsVars, mtVars, BBox1, BBox2>>

(***************************************************************************)
(* Initial states: the caller invokes one function of the library          *)
(***************************************************************************)
\* values of the variables a call does not use
IdleMT  == /\ listTemplates = <<>> /\ image = "uint8" /\ method = 5
           /\ searchBox = <<>> /\ listHit = <<>> /\ tIndex = 0 /\ scoreMaps = 0
IdleIoU == /\ BBox1 = <<0, 0, 1, 1>> /\ BBox2 = <<0, 0, 1, 1>>
           /\ IoU12 = <<>> /\ IoU21 = <<>>
NoLocals == threshTable = <<>> /\ outTable = <<>> /\ restTable = <<>>

\* NMS(tableHit, scoreThreshold, sortAscending, N_object, maxOverlap) on a 2-D
\* table of hits
InitNMS ==
    /\ entry = "NMS" /\ pc = "NMS" /\ err = "" /\ pass = 1 /\ firstOut = <<>>
    /\ tableHit \in SeqsUpTo(Hits, MaxLen)
    /\ tableNdim = 2
    /\ scoreThreshold \in Thresholds
    /\ sortAscending \in BOOLEAN
    /\ N_object \in PositiveN
    /\ maxOverlap \in Overlaps
    /\ NoLocals /\ IdleMT /\ IdleIoU

\* NMS on five hits scoring 0.9, 0.8, 0.7, 0.6, 0.5 in some order, every two of
\* them overlapping above maxOverlap, with N_object=2, maxOverlap=0.1 and the
\* descending (correlation) convention
CapScores == <<9, 8, 7, 6, 5>>
InitCap ==
    /\ entry = "NMS" /\ pc = "NMS" /\ err = "" /\ pass = 1 /\ firstOut = <<>>
    /\ \E bboxes \in {b \in [DOMAIN CapScores -> Boxes] :
                         \A i, j \in DOMAIN b :
                            i # j => FracGreater(computeIoU(b[i], b[j]), <<1, 10>>)} :
       \E order \in Permutations(DOMAIN CapScores) :
          tableHit = [i \in DOMAIN CapScores |->
                         <<bboxes[i][3], bboxes[i], CapScores[order[i]]>>]
    /\ tableNdim = 2
    /\ scoreThreshold = <<>>
    /\ sortAscending = FALSE
    /\ N_object = IntN(2)
    /\ maxOverlap = <<1, 10>>
    /\ NoLocals /\ IdleMT /\ IdleIoU

\* matchTemplates(listTemplates, image, method, N_object, score_threshold,
\*                maxOverlap, searchBox)
InitMT ==
    /\ entry = "matchTemplates" /\ pc = "matchTemplates" /\ err = ""
    /\ pass = 1 /\ firstOut = <<>>
    /\ listTemplates \in SeqsUpTo(TemplateSet, MaxTemplates)
    /\ image \in Dtypes
    /\ method \in Methods
    /\ searchBox \in SearchBoxes
    /\ N_object \in AnyN
    /\ maxOverlap \in Overlaps
    /\ listHit = <<>> /\ tIndex = 0 /\ scoreMaps = 0
    /\ tableHit = <<>> /\ tableNdim = 2 /\ scoreThreshold = <<>> /\ sortAscending = FALSE
    /\ NoLocals /\ IdleIoU

\* computeIoU(BBox1, BBox2)
InitIoU ==
    /\ entry = "computeIoU" /\ pc = "computeIoU" /\ err = "" /\ pass = 1 /\ firstOut = <<>>
    /\ BBox1 \in IoUBoxes /\ BBox2 \in IoUBoxes
    /\ IoU12 = <<>> /\ IoU21 = <<>>
    /\ tableHit = <<>> /\ tableNdim = 2 /\ scoreThreshold = <<>> /\ sortAscending = FALSE
    /\ N_object = FloatN(inf) /\ maxOverlap = <<1, 2>>
    /\ NoLocals /\ IdleMT

Init == InitNMS \/ InitCap \/ InitMT \/ InitIoU

Next ==
    \/ NMS_Begin \/ NMS_Accept \/ NMS_Reject \/ NMS_Return \/ NMS_Again
    \/ MT_Validate \/ FM_Validate \/ FM_Template \/ FM_Return
    \/ IoU_Call

Spec == Init /\ [][Next]_vars

(***************************************************************************)
(* Properties                                                              *)
(***************************************************************************)
InUnitRange(mo) == 0 <= mo[1] /\ mo[1] <= mo[2]
FirstNMS        == entry \in {"NMS", "matchTemplates"} /\ pass = 1
Positive(N)     == N.val >= 1
Count(seq, v)   == Cardinality({i \in DOMAIN seq : seq[i] = v})

\* C1: with maxOverlap in [0,1] and N_object >= 1, at every iteration of NMS and
\* on return every two distinct kept detections have IoU <= maxOverlap.
C1_PairwiseWithinMaxOverlap ==
    (FirstNMS /\ pc \in {"loop", "returned"} /\ InUnitRange(maxOverlap)
        /\ Positive(N_object))
    => \A i, j \in DOMAIN outTable :
          i # j => ~FracGreater(computeIoU(outTable[i], outTable[j]), maxOverlap)

\* C1 witness: a run with maxOverlap = 1/2 that kept two boxes and discarded one
C1_Witness ==
    /\ entry = "NMS" /\ pass = 1 /\ pc = "returned"
    /\ maxOverlap = <<1, 2>>
    /\ Len(outTable) = 2 /\ Len(threshTable) = 3 /\ restTable = <<>>

\* the selection the claim C2 describes: the best-ranked hit, then the others
\* one at a time in rank order, kept when no kept hit overlaps above maxOverlap
RECURSIVE GreedyFrom(_, _, _, _, _)
GreedyFrom(ranked, i, kept, N, mo) ==
    IF i > Len(ranked) \/ Len(kept) >= N.val THEN kept
    ELSE IF \A k \in DOMAIN kept :
               ~FracGreater(computeIoU(BBox(ranked[i]), BBox(kept[k])), mo)
         THEN GreedyFrom(ranked, i + 1, Append(kept, ranked[i]), N, mo)
         ELSE GreedyFrom(ranked, i + 1, kept, N, mo)

GreedyReference(ranked, N, mo) ==
    IF ranked = <<>> THEN <<>> ELSE GreedyFrom(ranked, 2, <<ranked[1]>>, N, mo)

\* C2: NMS returns the reference greedy selection over the ranked hits, also
\* when several hits have the same bbox (compared here on the boxes returned).
C2_EqualsGreedyReference ==
    (FirstNMS /\ pc = "returned" /\ InUnitRange(maxOverlap) /\ Positive(N_object))
    => outTable = BBoxColumn(GreedyReference(threshTable, N_object, maxOverlap))

\* C3: the number of detections NMS keeps is at most N_object and at most the
\* number of input hits, and NMS returns only once N_object are kept or no
\* candidate remains.
C3_SizeBounded ==
    (FirstNMS /\ pc \in {"loop", "returned"} /\ Positive(N_object))
    => /\ Len(outTable) <= N_object.val
       /\ Len(outTable) <= Len(tableHit)
       /\ pc = "returned" => (Len(outTable) = N_object.val \/ restTable = <<>>)

\* C3 witness: NMS returned at the cap with candidates still untested
C3_Witness ==
    /\ entry = "NMS" /\ pass = 1 /\ pc = "returned"
    /\ Len(outTable) = N_object.val /\ Len(outTable) = 2 /\ restTable # <<>>

\* C4: every element NMS returns is one of the input rows, with its template
\* name, bbox and score, and occurs no more often than in the input.
C4_OutputRowsAreInputRows ==
    (FirstNMS /\ pc = "returned")
    => \A i \in DOMAIN outTable :
          /\ \E j \in DOMAIN tableHit : outTable[i] = tableHit[j]
          /\ Count(outTable, outTable[i]) <= Count(tableHit, outTable[i])

\* NMS has run to its end, by a return or by the exception its indexing raises
NMSEnded == pc = "returned" \/ (pc = "raised" /\ err = "IndexError")

\* C5: when NMS gets no hit, or no hit passes the threshold, it returns an empty
\* set and raises nothing; this includes the empty result of findMatches
\* reaching NMS through matchTemplates.
C5_EmptyInputReturnsEmpty ==
    (FirstNMS /\ NMSEnded /\ threshTable = <<>>)
    => (pc = "returned" /\ err = "" /\ outTable = <<>>)

ArgumentErrors == {"ValueError: maxOverlap", "TypeError: N_object",
                   "ValueError: N_object", "ValueError: 64-bit"}

\* C6: every run of matchTemplates that ends in a validation error has computed
\* no score map before the error.
C6_AllValidationBeforeScoreMaps ==
    (entry = "matchTemplates" /\ pc = "raised" /\ err \in ArgumentErrors)
    => scoreMaps = 0

\* C6 as amended: matchTemplates computes a score map only after maxOverlap and
\* N_object have passed their checks, so a run ending in one of these two errors
\* has computed none; the 64-bit check is made per template just before that
\* template's score map, so a run ending in the 64-bit error has computed the
\* score maps of exactly the templates before the offending one.
C6_ValidationOrder ==
    entry = "matchTemplates" =>
       /\ scoreMaps > 0 =>
             /\ InUnitRange(maxOverlap)
             /\ N_object.type = "int" \/ N_object.val = inf
             /\ Positive(N_object)
             /\ image # "float64"
             /\ \A i \in 1..scoreMaps : listTemplates[i].dtype # "float64"
       /\ err \in {"ValueError: maxOverlap", "TypeError: N_object",
                   "ValueError: N_object"} => scoreMaps = 0
       /\ err = "ValueError: 64-bit" =>
             /\ scoreMaps = tIndex - 1
             /\ listTemplates[tIndex].dtype = "float64" \/ image = "float64"

\* C6 witness: the 64-bit error raised after a score map was computed
C6_Witness ==
    /\ entry = "matchTemplates" /\ pc = "raised" /\ err = "ValueError: 64-bit"
    /\ scoreMaps = 1 /\ listHit # <<>>

\* C7: NMS called directly with maxOverlap outside [0,1] fails with an
\* invalid-argument error and returns nothing.
C7_NMSRejectsBadOverlap ==
    (entry = "NMS" /\ pass = 1 /\ ~InUnitRange(maxOverlap) /\ pc # "NMS")
    => (pc = "raised" /\ err = "ValueError: maxOverlap")

\* C7 as amended: matchTemplates called with maxOverlap outside [0,1] fails with
\* the ValueError of line 174 before doing anything else and returns nothing;
\* NMS called directly makes no check of maxOverlap and returns a detection set.
C7_OverlapCheckedByMatchTemplates ==
    ~InUnitRange(maxOverlap) =>
       /\ (entry = "matchTemplates" /\ pc # "matchTemplates")
            => /\ pc = "raised" /\ err = "ValueError: maxOverlap"
               /\ scoreMaps = 0 /\ tableHit = <<>> /\ outTable = <<>>
       /\ (entry = "NMS" /\ pass = 1) => (pc # "raised" /\ err = "")

\* C7 witness: matchTemplates, given templates and maxOverlap = 3/2, has raised
C7_Witness ==
    /\ entry = "matchTemplates" /\ pc = "raised" /\ maxOverlap = <<3, 2>>
    /\ listTemplates # <<>> /\ Positive(N_object)

\* the scenario of C8: five hits scoring 0.9 .. 0.5, every two of them overlapping
\* above maxOverlap = 0.1, N_object = 2, descending convention
CapCase ==
    /\ entry = "NMS" /\ pass = 1 /\ tableNdim = 2
    /\ N_object = IntN(2) /\ maxOverlap = <<1, 10>>
    /\ ~sortAscending /\ scoreThreshold = <<>>
    /\ Len(tableHit) = Len(CapScores)
    /\ \A k \in DOMAIN CapScores : \E i \in DOMAIN tableHit : Score(tableHit[i]) = CapScores[k]
    /\ \A i, j \in DOMAIN tableHit :
          i # j => FracGreater(computeIoU(BBox(tableHit[i]), BBox(tableHit[j])), maxOverlap)

BoxScoring(coeff) ==
    BBox(tableHit[CHOOSE i \in DOMAIN tableHit : Score(tableHit[i]) = coeff])

\* C8: in the cap scenario NMS returns the two top-scored detections, 0.9 then 0.8.
C8_CapReturnsTopTwo ==
    (pc = "returned" /\ CapCase)
    => outTable = <<BoxScoring(CapScores[1]), BoxScoring(CapScores[2])>>

\* C8 as amended: in the cap scenario NMS returns exactly one entry, the box of
\* the top-scored detection (0.9): each of the four others overlaps it above
\* maxOverlap and is discarded.
C8_CapReturnsTopOne ==
    (pc = "returned" /\ CapCase) => outTable = <<BoxScoring(CapScores[1])>>

\* C8 witness: the cap scenario ran to its return, on boxes that are not all equal
C8_Witness ==
    /\ pc = "returned" /\ CapCase
    /\ BoxScoring(CapScores[1]) # BoxScoring(CapScores[2])
    /\ BoxScoring(CapScores[1]) # BoxScoring(CapScores[5])

\* C9: NMS called on its own output with the same arguments returns the same
\* detections in the same order.
C9_Idempotent ==
    (entry = "NMS" /\ pass = 2 /\ pc \in {"returned", "raised"})
    => (pc = "returned" /\ outTable = firstOut)

\* all four corners of box A lie inside box B
CornersInside(A, B) ==
    /\ B[1] <= A[1] /\ A[1] + A[3] <= B[1] + B[3]
    /\ B[2] <= A[2] /\ A[2] + A[4] <= B[2] + B[4]

\* the intersection rectangle of A and B is degenerate
DegenerateIntersection(A, B) ==
    \/ Min2(A[1] + A[3], B[1] + B[3]) <= Max2(A[1], B[1])
    \/ Min2(A[2] + A[4], B[2] + B[4]) <= Max2(A[2], B[2])

\* C10: for boxes of width and height >= 1, computeIoU(A,B) = computeIoU(B,A),
\* 0 <= computeIoU(A,B) <= 1, the value is 1 when the corners of one box lie
\* inside the other and 0 when the intersection rectangle is degenerate.
C10_IoUSymmetricAndBounded ==
    (entry = "computeIoU" /\ pc = "returned")
    => /\ IoU12[1] * IoU21[2] = IoU21[1] * IoU12[2]
       /\ IoU12[2] > 0 /\ 0 <= IoU12[1] /\ IoU12[1] <= IoU12[2]
       /\ (CornersInside(BBox1, BBox2) \/ CornersInside(BBox2, BBox1))
             => IoU12[1] = IoU12[2]
       /\ DegenerateIntersection(BBox1, BBox2) => IoU12[1] = 0

\* C10 witness: a partial overlap, 0 < IoU < 1, and the same value both ways
C10_Witness ==
    /\ entry = "computeIoU" /\ pc = "returned"
    /\ 0 < IoU12[1] /\ IoU12[1] < IoU12[2] /\ IoU12 = IoU21
    /\ BBox1[3] # BBox2[3]

\* the rows of a table that have the given score, in table order
RowsScoring(table, coeff) == SelectSeq(table, LAMBDA hit : Score(hit) = coeff)

\* C11: the ranking of NMS is a stable sort under both conventions: rows of
\* equal score stand in the ranked table in the order they have in the input.
C11_RankingIsStable ==
    (pc \in {"loop", "returned"} /\ FirstNMS)
    => \A i \in DOMAIN threshTable :
          RowsScoring(threshTable, Score(threshTable[i]))
             = RowsScoring(tableHit, Score(threshTable[i]))

====
